---- MODULE Spec2Model ----
(***************************************************************************)
(* kube-vip cloud provider: the load-balancer address allocation of        *)
(* pkg/provider/loadBalancer.go.                                           *)
(*                                                                         *)
(* The request store holds Service objects; the configuration store holds  *)
(* one ConfigMap (the pool definitions).  A worker of the host runtime     *)
(* runs syncLoadBalancer on an event snapshot of one service; every call   *)
(* to a collaborator (List, GetConfigMap, CreateConfigMap, Get, Update) is *)
(* one atomic step, so that the runs of several workers interleave between *)
(* the calls.                                                              *)
(***************************************************************************)
EXTENDS Integers, Sequences, FiniteSets, TLC

(***************************************************************************)
(* Bounds of the model.                                                    *)
(***************************************************************************)
\* The services of the model are s1..s<NumServices>.
NumServices == 3
\* Of these, s1..s<NumShared> exist at the start of a run of Spec, where the
\* workers run concurrently; all of them at the start of a run of SpecSeq.
NumShared == 2
\* Workers of the host runtime that may run syncLoadBalancer concurrently.
NumWorkers == 2

\* retry.DefaultRetry.Steps of k8s.io/client-go/util/retry: the attempts
\* retry.RetryOnConflict makes.
RetrySteps == 5

AllServices == <<"s1", "s2", "s3", "s4">>
AllWorkers == <<"w1", "w2", "w3">>
SvcOrder == SubSeq(AllServices, 1, NumServices)
Services == {SvcOrder[i] : i \in 1..NumServices}
Workers == {AllWorkers[i] : i \in 1..NumWorkers}
Namespaces == {"default", "other"}

(***************************************************************************)
(* Addresses.  An address string is modelled by its four octets; the empty *)
(* string by NoAddr.  Two address strings in canonical dotted form are     *)
(* equal iff their octets are.                                             *)
(***************************************************************************)
NoAddr == <<>>

IPLess(a, b) ==
    \E i \in 1..4 : a[i] < b[i] /\ \A j \in 1..(i - 1) : a[j] = b[j]

IPLeq(a, b) == a = b \/ IPLess(a, b)

\* The low 16 bits of an address.
Lo16(a) == a[3] * 256 + a[4]

\* The next address in numeric order (255.255.255.255 has none in the model).
IPSucc(a) ==
    IF a[4] < 255 THEN <<a[1], a[2], a[3], a[4] + 1>>
    ELSE IF a[3] < 255 THEN <<a[1], a[2], a[3] + 1, 0>>
    ELSE IF a[2] < 255 THEN <<a[1], a[2] + 1, 0, 0>>
    ELSE <<a[1] + 1, 0, 0, 0>>

RECURSIVE Pow2(_)
Pow2(n) == IF n = 0 THEN 1 ELSE 2 * Pow2(n - 1)

(***************************************************************************)
(* Pool texts: the values of the configuration document.  A text is either *)
(* a CIDR block "a.b.c.d/bits", a range "lo-hi", or text that parses as    *)
(* neither.                                                                *)
(***************************************************************************)
CidrText(ip, bits) == [t |-> "cidr", ip |-> ip, bits |-> bits]
RangeText(lo, hi) == [t |-> "range", lo |-> lo, hi |-> hi]
Garbage == [t |-> "garbage"]

\* The addresses lo, lo+1, .., hi in ascending numeric order.
RECURSIVE IPsFromTo(_, _)
IPsFromTo(lo, hi) ==
    IF IPLess(hi, lo) THEN <<>>
    ELSE IF lo = hi THEN <<lo>>
    ELSE <<lo>> \o IPsFromTo(IPSucc(lo), hi)

\* The first element of hosts that is not in the claims, NoAddr when none.
RECURSIVE FirstFree(_, _)
FirstFree(hosts, claimed) ==
    IF hosts = <<>> THEN NoAddr
    ELSE IF Head(hosts) \notin claimed THEN Head(hosts)
    ELSE FirstFree(Tail(hosts), claimed)

\* The set of the elements of a sequence.
Elems(seq) == {seq[i] : i \in 1..Len(seq)}

\* The previous address in numeric order (0.0.0.0 has none in the model).
IPPred(a) ==
    IF a[4] > 0 THEN <<a[1], a[2], a[3], a[4] - 1>>
    ELSE IF a[3] > 0 THEN <<a[1], a[2], a[3] - 1, 255>>
    ELSE IF a[2] > 0 THEN <<a[1], a[2] - 1, 255, 255>>
    ELSE <<a[1] - 1, 255, 255, 255>>

Hi16(a) == a[1] * 256 + a[2]
FromHiLo(hi, lo) == <<hi \div 256, hi % 256, lo \div 256, lo % 256>>

\* The network address and the broadcast address of the block ip/bits.
NetworkAddr(ip, bits) ==
    IF bits >= 16
    THEN FromHiLo(Hi16(ip), Lo16(ip) - (Lo16(ip) % Pow2(32 - bits)))
    ELSE FromHiLo(Hi16(ip) - (Hi16(ip) % Pow2(16 - bits)), 0)

BroadcastAddr(ip, bits) ==
    IF bits >= 16
    THEN FromHiLo(Hi16(ip),
                  Lo16(ip) - (Lo16(ip) % Pow2(32 - bits)) + Pow2(32 - bits) - 1)
    ELSE FromHiLo(Hi16(ip) - (Hi16(ip) % Pow2(16 - bits)) + Pow2(16 - bits) - 1,
                  65535)

(***************************************************************************)
(* Package ipam (AddressAllocator).  Both variants return <<vip, err>>.    *)
(***************************************************************************)
\* An error value is a pair <<kind, origin>>; NoError is Go's nil error.
NoError == <<"nil", "">>
ErrInvalidPool == <<"InvalidPool", "ipam">>
ErrExhausted == <<"Exhausted", "ipam">>
ErrNotFound == <<"NotFound", "discoverAddress">>

\* The usable hosts of a CIDR text, in ascending order: every address of the
\* block but its network and its broadcast address.  A /31 or /32 block has
\* none.  <<>> also when the text is no CIDR block.
CidrHosts(text) ==
    IF text.t # "cidr" THEN <<>>
    ELSE IF text.bits \notin 0..32 THEN <<>>
    ELSE IPsFromTo(IPSucc(NetworkAddr(text.ip, text.bits)),
                   IPPred(BroadcastAddr(text.ip, text.bits)))

\* The addresses of a range text, start to end inclusive, in ascending order;
\* <<>> when the text is no range or start > end.
RangeHosts(text) ==
    IF text.t # "range" THEN <<>> ELSE IPsFromTo(text.lo, text.hi)

BrokenFindAvailableHostFromCidr(namespace, cidr, existingServiceIPS) ==
    LET hosts == CidrHosts(cidr)
    IN  IF hosts = <<>> THEN <<NoAddr, ErrInvalidPool>>
        ELSE <<NetworkAddr(cidr.ip, cidr.bits), NoError>>

FindAvailableHostFromCidr(namespace, cidr, existingServiceIPS) ==
    LET hosts == CidrHosts(cidr)
        vip == FirstFree(hosts, Elems(existingServiceIPS))
    IN  IF hosts = <<>> THEN <<NoAddr, ErrInvalidPool>>
        ELSE IF vip = NoAddr THEN <<NoAddr, ErrExhausted>>
        ELSE <<vip, NoError>>

FindAvailableHostFromRange(namespace, ipRange, existingServiceIPS) ==
    LET hosts == RangeHosts(ipRange)
        vip == FirstFree(hosts, Elems(existingServiceIPS))
    IN  IF hosts = <<>> THEN <<NoAddr, ErrInvalidPool>>
        ELSE IF vip = NoAddr THEN <<NoAddr, ErrExhausted>>
        ELSE <<vip, NoError>>

(***************************************************************************)
(* The configuration document.  cm.Data is a function from the keys that   *)
(* are present to pool texts.  The key "cidr-<namespace>" is the pair      *)
(* <<"cidr", namespace>>, and "cidr-global" the pair <<"cidr", "global">>. *)
(***************************************************************************)
CidrKey(namespace) == <<"cidr", namespace>>
RangeKey(namespace) == <<"range", namespace>>
CidrGlobal == <<"cidr", "global">>
RangeGlobal == <<"range", "global">>

NoKey == <<"none", "none">>

\* The key discoverAddress takes the pool from, NoKey when it finds none.
BrokenResolveKey(data, namespace) ==
    IF RangeKey(namespace) \in DOMAIN data THEN RangeKey(namespace)
    ELSE IF RangeGlobal \in DOMAIN data THEN RangeGlobal
    ELSE IF CidrKey(namespace) \in DOMAIN data THEN CidrKey(namespace)
    ELSE IF CidrGlobal \in DOMAIN data THEN CidrGlobal
    ELSE NoKey

ResolveKey(data, namespace) ==
    IF CidrKey(namespace) \in DOMAIN data THEN CidrKey(namespace)
    ELSE IF CidrGlobal \in DOMAIN data THEN CidrGlobal
    ELSE IF RangeKey(namespace) \in DOMAIN data THEN RangeKey(namespace)
    ELSE IF RangeGlobal \in DOMAIN data THEN RangeGlobal
    ELSE NoKey

\* discoverAddress returns [vip, err]; key records the pool it logged.
BrokenDiscoverAddress(data, namespace, existingServiceIPS) ==
    LET key == ResolveKey(data, namespace)
        r == IF key = NoKey THEN <<NoAddr, ErrNotFound>>
             ELSE IF key[1] = "cidr"
             THEN FindAvailableHostFromCidr(namespace, data[key], <<>>)
             ELSE FindAvailableHostFromRange(namespace, data[key], <<>>)
    IN  [vip |-> r[1], err |-> r[2], key |-> key]

\* A lookup that goes on to the range keys when the CIDR pool gives no address.
FallThroughDiscoverAddress(data, namespace, existingServiceIPS) ==
    LET key == ResolveKey(data, namespace)
        rkey == IF RangeKey(namespace) \in DOMAIN data THEN RangeKey(namespace)
                ELSE IF RangeGlobal \in DOMAIN data THEN RangeGlobal
                ELSE NoKey
        c == IF key # NoKey /\ key[1] = "cidr"
             THEN FindAvailableHostFromCidr(namespace, data[key],
                                            existingServiceIPS)
             ELSE <<NoAddr, ErrNotFound>>
        r == IF rkey # NoKey
             THEN FindAvailableHostFromRange(namespace, data[rkey],
                                             existingServiceIPS)
             ELSE <<NoAddr, ErrNotFound>>
    IN  IF key = NoKey THEN [vip |-> NoAddr, err |-> ErrNotFound, key |-> key]
        ELSE IF c[2] = NoError \/ rkey = NoKey
        THEN [vip |-> IF key[1] = "cidr" THEN c[1] ELSE r[1],
              err |-> IF key[1] = "cidr" THEN c[2] ELSE r[2], key |-> key]
        ELSE [vip |-> r[1], err |-> r[2], key |-> rkey]

discoverAddress(data, namespace, existingServiceIPS) ==
    LET key == ResolveKey(data, namespace)
        r == IF key = NoKey THEN <<NoAddr, ErrNotFound>>
             ELSE IF key[1] = "cidr"
             THEN FindAvailableHostFromCidr(namespace, data[key],
                                            existingServiceIPS)
             ELSE FindAvailableHostFromRange(namespace, data[key],
                                             existingServiceIPS)
    IN  [vip |-> r[1], err |-> r[2], key |-> key]

(***************************************************************************)
(* Errors of the collaborators.                                            *)
(***************************************************************************)
\* A store-connectivity error of the call op.
ErrStore(op) == <<"StoreError", op>>
\* The store's answer for an object that does not exist / exists already.
ErrObjNotFound(op) == <<"ObjectNotFound", op>>
ErrAlreadyExists == <<"AlreadyExists", "CreateConfigMap">>
ErrConflict == <<"Conflict", "Update">>

\* fmt.Errorf("error updating Service Spec [%s] : %v", name, err)
Errorf(name, err) == <<"error updating Service Spec", name, err>>

(***************************************************************************)
(* The pool texts and configuration documents of the model.                *)
(***************************************************************************)
IP(a, b, c, d) == <<a, b, c, d>>

Cidr30 == CidrText(IP(192, 168, 1, 0), 30)
Cidr30b == CidrText(IP(192, 168, 1, 5), 30)
Cidr31 == CidrText(IP(192, 168, 1, 8), 31)
Range12 == RangeText(IP(10, 0, 0, 1), IP(10, 0, 0, 2))
RangeCross == RangeText(IP(10, 0, 0, 255), IP(10, 0, 1, 0))
RangeBad == RangeText(IP(10, 0, 0, 5), IP(10, 0, 0, 4))

EmptyData == <<>>
Data1(k, v) == [x \in {k} |-> v]
Data2(k1, v1, k2, v2) == [x \in {k1, k2} |-> IF x = k1 THEN v1 ELSE v2]

(***************************************************************************)
(* State.                                                                  *)
(*   store[s]   the Service s of the request store: Exists, Namespace, the *)
(*              labels implementation and ipam-address ("" when absent),   *)
(*              Spec.LoadBalancerIP and Status.LoadBalancer                *)
(*   configMap  the configuration document: Exists and Data                *)
(*   run[w]     the call of syncLoadBalancer worker w is in: its position  *)
(*              pc, its parameter and its local variables                  *)
(***************************************************************************)
VARIABLES store, configMap, run

vars == <<store, configMap, run>>

KubeVip == "kube-vip"

\* Status.LoadBalancer of service s: written by others, opaque to this code.
NoStatus == <<"status", "">>
StatusOf(s) == <<"status", s>>

\* A new service of type LoadBalancer: no labels, no address.
NewService(s, namespace) ==
    [Exists |-> TRUE, Namespace |-> namespace, implementation |-> "",
     ipam |-> NoAddr, LoadBalancerIP |-> NoAddr, Status |-> StatusOf(s)]

\* What is left of a deleted service.
Deleted(svc) ==
    [Exists |-> FALSE, Namespace |-> svc.Namespace, implementation |-> "",
     ipam |-> NoAddr, LoadBalancerIP |-> NoAddr, Status |-> NoStatus]

NoService == [Exists |-> FALSE, Namespace |-> "", implementation |-> "",
              ipam |-> NoAddr, LoadBalancerIP |-> NoAddr, Status |-> NoStatus]

\* A worker that runs no call.
IdleRun ==
    [pc |-> "Idle", name |-> "", service |-> NoService,
     existingServiceIPS |-> <<>>, cm |-> EmptyData, err |-> NoError,
     loadBalancerIP |-> NoAddr, key |-> NoKey, attempts |-> 0,
     fresh |-> FALSE, retryErr |-> NoError, lbs |-> NoStatus,
     ret |-> NoError, calls |-> {}, writes |-> 0, exists |-> FALSE,
     ctx |-> "live"]

\* The configuration documents a run of Spec may start with.
InitConfigs ==
    { [Exists |-> FALSE, Data |-> EmptyData],
      [Exists |-> TRUE, Data |-> Data1(CidrKey("default"), Cidr30)],
      [Exists |-> TRUE, Data |-> Data1(RangeGlobal, Range12)],
      [Exists |-> TRUE, Data |-> Data1(CidrGlobal, Cidr31)] }

\* The namespaces of the services: s1 is in default, the others in any.
NamespaceMaps == {ns \in [Services -> Namespaces] : ns["s1"] = "default"}

Shared == {SvcOrder[i] : i \in 1..NumShared}

\* A run of Spec: the services s1..s<NumShared>, all in namespace default.
Init ==
    /\ store = [s \in Services |->
                  IF s \in Shared THEN NewService(s, "default")
                  ELSE Deleted(NewService(s, "default"))]
    /\ configMap \in InitConfigs
    /\ run = [w \in Workers |-> IdleRun]

\* The configuration documents a run of SpecSeq may start with: none, every
\* subset of the four keys of namespace default, and documents with a key of
\* another namespace or with texts that are no pool.
KeyTexts ==
    [k \in {CidrKey("default"), CidrGlobal, RangeKey("default"), RangeGlobal}
       |-> IF k = CidrKey("default") THEN Cidr30
           ELSE IF k = CidrGlobal THEN Cidr30b
           ELSE IF k = RangeKey("default") THEN Range12
           ELSE RangeCross]

SeqConfigs ==
    { [Exists |-> FALSE, Data |-> EmptyData] }
    \cup
    { [Exists |-> TRUE, Data |-> [k \in K |-> KeyTexts[k]]] :
        K \in SUBSET DOMAIN KeyTexts }
    \cup
    { [Exists |-> TRUE, Data |-> d] :
        d \in { Data2(CidrKey("other"), Cidr30b, RangeGlobal, Range12),
                Data2(CidrGlobal, Garbage, RangeGlobal, Range12),
                Data2(CidrKey("default"), Cidr31, RangeKey("default"), Range12),
                Data2(CidrGlobal, Range12, RangeKey("default"), Range12),
                Data1(RangeKey("default"), RangeBad),
                Data1(RangeGlobal, Cidr30) } }

InitSeq ==
    /\ \E ns \in NamespaceMaps :
         store = [s \in Services |-> NewService(s, ns[s])]
    /\ configMap \in SeqConfigs
    /\ run = [w \in Workers |-> IdleRun]

(***************************************************************************)
(* syncLoadBalancer, one action per collaborator call.                     *)
(***************************************************************************)
\* A call ends: lbs and ret are what syncLoadBalancer returns.
NilStatus == <<"status", "nil">>
Finish(r, pc, lbs, ret) == [r EXCEPT !.pc = pc, !.lbs = lbs, !.ret = ret]

\* EnsureLoadBalancer / UpdateLoadBalancer: the host runtime hands worker w
\* its event snapshot of service s.
Begin(w, s) ==
    /\ run[w].pc = "Idle"
    /\ store[s].Exists
    /\ run' = [run EXCEPT ![w] = [IdleRun EXCEPT !.pc = "Unbound",
                                                 !.name = s,
                                                 !.service = store[s]]]
    /\ UNCHANGED <<store, configMap>>

\* The entry guard: the address has already been populated.
NeverPopulated(service) == FALSE

AlreadyPopulated(service) == service.LoadBalancerIP # NoAddr

EntryGuard(w) ==
    /\ run[w].pc = "Unbound"
    /\ AlreadyPopulated(run[w].service)
    /\ run' = [run EXCEPT ![w] =
                 Finish(@, "Bound", run[w].service.Status, NoError)]
    /\ UNCHANGED <<store, configMap>>

\* Services(namespace).List with LabelSelector implementation=kube-vip, and
\* the ipam-address labels of its items (existingServiceIPS).
\* A listing that finds no service.
BrokenListIPs(st, namespace, i) == <<>>

RECURSIVE ListIPs(_, _, _)
ListIPs(st, namespace, i) ==
    IF i > Len(SvcOrder) THEN <<>>
    ELSE LET svc == st[SvcOrder[i]]
         IN  (IF /\ svc.Exists
                 /\ svc.Namespace = namespace
                 /\ svc.implementation = KubeVip
              THEN <<svc.ipam>> ELSE <<>>)
             \o ListIPs(st, namespace, i + 1)

ListServices(w) ==
    /\ run[w].pc = "Unbound"
    /\ ~AlreadyPopulated(run[w].service)
    /\ \/ run' = [run EXCEPT ![w] =
                    [@ EXCEPT !.pc = "Resolving",
                              !.calls = @ \cup {"List"},
                              !.existingServiceIPS =
                                  ListIPs(store, run[w].service.Namespace, 1)]]
       \/ run' = [run EXCEPT ![w] =
                    Finish([@ EXCEPT !.calls = @ \cup {"List"},
                                     !.err = ErrStore("List")],
                           "Failed", run[w].service.Status, ErrStore("List"))]
    /\ UNCHANGED <<store, configMap>>

\* GetConfigMap: the document, or an error (it is absent, or the store cannot
\* be reached); after any error syncLoadBalancer goes on to CreateConfigMap.
GetConfigMap(w) ==
    /\ run[w].pc = "Resolving"
    /\ \/ /\ configMap.Exists
          /\ run' = [run EXCEPT ![w] =
                       [@ EXCEPT !.pc = "Allocating",
                                 !.calls = @ \cup {"GetConfigMap"},
                                 !.cm = configMap.Data]]
       \/ \E e \in {ErrStore("GetConfigMap")}
                   \cup (IF configMap.Exists THEN {}
                         ELSE {ErrObjNotFound("GetConfigMap")}) :
            run' = [run EXCEPT ![w] =
                      [@ EXCEPT !.pc = "Creating",
                                !.calls = @ \cup {"GetConfigMap"},
                                !.err = e]]
    /\ UNCHANGED <<store, configMap>>

\* The document CreateConfigMap creates: one without pool definitions.
CreatedConfigMap == [Exists |-> TRUE, Data |-> EmptyData]

\* CreateConfigMap: creates the document and returns it, or fails.
CreateConfigMap(w) ==
    /\ run[w].pc = "Creating"
    /\ \/ /\ ~configMap.Exists
          /\ configMap' = CreatedConfigMap
          /\ run' = [run EXCEPT ![w] =
                       [@ EXCEPT !.pc = "Allocating",
                                 !.calls = @ \cup {"CreateConfigMap"},
                                 !.err = NoError,
                                 !.cm = CreatedConfigMap.Data]]
       \/ /\ \E e \in {ErrStore("CreateConfigMap")}
                      \cup (IF configMap.Exists THEN {ErrAlreadyExists}
                            ELSE {}) :
               run' = [run EXCEPT ![w] =
                         Finish([@ EXCEPT !.calls = @ \cup {"CreateConfigMap"},
                                          !.err = e],
                                "Failed", NilStatus, e)]
          /\ UNCHANGED configMap
    /\ UNCHANGED store

\* The local IPAM lookup.
BrokenAllocate(w) ==
    /\ run[w].pc = "Allocating"
    /\ LET d == discoverAddress(run[w].cm, run[w].service.Namespace,
                                run[w].existingServiceIPS)
       IN  run' = [run EXCEPT ![w] =
                     [@ EXCEPT !.pc = "Persisting",
                               !.calls = @ \cup {"discoverAddress"},
                               !.cm = EmptyData,
                               !.existingServiceIPS = <<>>,
                               !.err = d.err,
                               !.key = d.key,
                               !.loadBalancerIP = d.vip]]
    /\ UNCHANGED <<store, configMap>>

Allocate(w) ==
    /\ run[w].pc = "Allocating"
    /\ LET d == discoverAddress(run[w].cm, run[w].service.Namespace,
                                run[w].existingServiceIPS)
           r == [run[w] EXCEPT !.calls = @ \cup {"discoverAddress"},
                               !.cm = EmptyData,
                               !.existingServiceIPS = <<>>,
                               !.err = d.err,
                               !.key = d.key,
                               !.loadBalancerIP = d.vip]
       IN  run' = [run EXCEPT ![w] =
                     IF d.err # NoError
                     THEN Finish(r, "Failed", NilStatus, d.err)
                     ELSE [r EXCEPT !.pc = "Persisting"]]
    /\ UNCHANGED <<store, configMap>>

(***************************************************************************)
(* The write loop: retry.RetryOnConflict(retry.DefaultRetry, fn) calls fn  *)
(* up to RetrySteps times, again only after a Conflict.  fn is a Get of    *)
(* the service followed by an Update of what Get returned; the store       *)
(* answers the Update with Conflict iff the service was written after the  *)
(* Get (its resourceVersion moved), which run[w].fresh records.            *)
(***************************************************************************)
\* The error of a call made with a cancelled context.
ErrCanceled(op) == <<"Canceled", op>>

\* RetryOnConflict returned retryErr # nil.
RetryFailed(r, retryErr) ==
    Finish([r EXCEPT !.retryErr = retryErr],
           "Failed", NilStatus, Errorf(r.name, r.err))

\* A Get that does not look at the context.
DeafGetService(w) ==
    /\ run[w].pc = "Persisting"
    /\ \/ /\ store[run[w].name].Exists
          /\ run' = [run EXCEPT ![w] =
                       [@ EXCEPT !.pc = "Updating",
                                 !.calls = @ \cup {"Get"},
                                 !.fresh = TRUE]]
       \/ \E e \in {ErrStore("Get")}
                   \cup (IF store[run[w].name].Exists THEN {}
                         ELSE {ErrObjNotFound("Get")}) :
            run' = [run EXCEPT ![w] =
                      RetryFailed([@ EXCEPT !.calls = @ \cup {"Get"}], e)]
    /\ UNCHANGED <<store, configMap>>

GetService(w) ==
    /\ run[w].pc = "Persisting"
    /\ \/ /\ store[run[w].name].Exists
          /\ run[w].ctx = "live"
          /\ run' = [run EXCEPT ![w] =
                       [@ EXCEPT !.pc = "Updating",
                                 !.calls = @ \cup {"Get"},
                                 !.fresh = TRUE]]
       \/ \E e \in IF run[w].ctx = "cancelled" THEN {ErrCanceled("Get")}
                   ELSE {ErrStore("Get")}
                        \cup (IF store[run[w].name].Exists THEN {}
                              ELSE {ErrObjNotFound("Get")}) :
            run' = [run EXCEPT ![w] =
                      RetryFailed([@ EXCEPT !.calls = @ \cup {"Get"}], e)]
    /\ UNCHANGED <<store, configMap>>

\* recentService after the labels and the address are set on it.
BrokenWithAddress(recentService, loadBalancerIP) ==
    [recentService EXCEPT !.implementation = KubeVip,
                          !.ipam = loadBalancerIP]

\* An update that leaves out the ipam-address label.
UnlabelledWithAddress(recentService, loadBalancerIP) ==
    [recentService EXCEPT !.implementation = KubeVip,
                          !.LoadBalancerIP = loadBalancerIP]

WithAddress(recentService, loadBalancerIP) ==
    [recentService EXCEPT !.implementation = KubeVip,
                          !.ipam = loadBalancerIP,
                          !.LoadBalancerIP = loadBalancerIP]

\* The runs whose Get of service s is made stale by a write of s.
Staled(w, s) ==
    [v \in Workers |->
        IF v # w /\ run[v].name = s /\ run[v].pc = "Updating"
        THEN [run[v] EXCEPT !.fresh = FALSE]
        ELSE run[v]]

BrokenUpdateService(w) ==
    LET s == run[w].name
        r == [run[w] EXCEPT !.calls = @ \cup {"Update"}]
        obj == WithAddress(store[s], r.loadBalancerIP)
    IN
    /\ run[w].pc = "Updating"
    /\ store[s].Exists
    /\ store' = [store EXCEPT ![s] = obj]
    /\ run' = [(IF obj # store[s] THEN Staled(w, s) ELSE run)
                 EXCEPT ![w] =
                   IF run[w].fresh
                   THEN Finish([r EXCEPT !.writes = @ + 1],
                               "Bound", r.service.Status, NoError)
                   ELSE [r EXCEPT !.writes = @ + 1,
                                  !.attempts = @ + 1,
                                  !.pc = "Persisting"]]
    /\ UNCHANGED configMap

\* An update that does not count the steps of the retry.
UncountedUpdateService(w) ==
    LET s == run[w].name
        r == [run[w] EXCEPT !.calls = @ \cup {"Update"}]
        obj == WithAddress(store[s], r.loadBalancerIP)
    IN
    /\ run[w].pc = "Updating"
    /\ \/ /\ store[s].Exists
          /\ run[w].fresh
          /\ run[w].ctx = "live"
          /\ store' = [store EXCEPT ![s] = obj]
          /\ run' = [(IF obj # store[s] THEN Staled(w, s) ELSE run)
                       EXCEPT ![w] =
                         Finish([r EXCEPT !.writes = @ + 1],
                                "Bound", r.service.Status, NoError)]
       \/ /\ store[s].Exists
          /\ ~run[w].fresh
          /\ run[w].ctx = "live"
          /\ run' = [run EXCEPT ![w] = [r EXCEPT !.pc = "Persisting"]]
          /\ UNCHANGED store
       \/ /\ \E e \in IF run[w].ctx = "cancelled"
                      THEN {ErrCanceled("Update")}
                      ELSE {ErrStore("Update")}
                           \cup (IF store[s].Exists THEN {}
                                 ELSE {ErrObjNotFound("Update")}) :
               run' = [run EXCEPT ![w] = RetryFailed(r, e)]
          /\ UNCHANGED store
    /\ UNCHANGED configMap

UpdateService(w) ==
    LET s == run[w].name
        r == [run[w] EXCEPT !.calls = @ \cup {"Update"}]
        obj == WithAddress(store[s], r.loadBalancerIP)
    IN
    /\ run[w].pc = "Updating"
    /\ \/ \* the update is committed
          /\ store[s].Exists
          /\ run[w].fresh
          /\ run[w].ctx = "live"
          /\ store' = [store EXCEPT ![s] = obj]
          /\ run' = [(IF obj # store[s] THEN Staled(w, s) ELSE run)
                       EXCEPT ![w] =
                         Finish([r EXCEPT !.writes = @ + 1],
                                "Bound", r.service.Status, NoError)]
       \/ \* Conflict: fn is called again, unless the steps are used up
          /\ store[s].Exists
          /\ ~run[w].fresh
          /\ run[w].ctx = "live"
          /\ run' = [run EXCEPT ![w] =
                       IF r.attempts + 1 >= RetrySteps
                       THEN RetryFailed([r EXCEPT !.attempts = @ + 1],
                                        ErrConflict)
                       ELSE [r EXCEPT !.attempts = @ + 1,
                                      !.pc = "Persisting"]]
          /\ UNCHANGED store
       \/ \* any other error ends the loop
          /\ \E e \in IF run[w].ctx = "cancelled"
                      THEN {ErrCanceled("Update")}
                      ELSE {ErrStore("Update")}
                           \cup (IF store[s].Exists THEN {}
                                 ELSE {ErrObjNotFound("Update")}) :
               run' = [run EXCEPT ![w] = RetryFailed(r, e)]
          /\ UNCHANGED store
    /\ UNCHANGED configMap

\* The context of the call is cancelled by the caller while the write loop
\* runs.
Cancel(w) ==
    /\ run[w].pc \in {"Persisting", "Updating"}
    /\ run[w].ctx = "live"
    /\ run' = [run EXCEPT ![w].ctx = "cancelled"]
    /\ UNCHANGED <<store, configMap>>

(***************************************************************************)
(* The other entry points.                                                 *)
(***************************************************************************)
\* A deletion path that would release the address explicitly.
BrokenDeleteLoadBalancer(w, s) ==
    /\ run[w].pc = "Idle"
    /\ store[s].Exists
    /\ run' = [run EXCEPT ![w] = [IdleRun EXCEPT !.pc = "Deleted",
                                                 !.name = s,
                                                 !.service = store[s],
                                                 !.ret = NoError]]
    /\ store' = [store EXCEPT ![s] = [@ EXCEPT !.implementation = "",
                                               !.ipam = NoAddr,
                                               !.LoadBalancerIP = NoAddr]]
    /\ UNCHANGED configMap

\* EnsureLoadBalancerDeleted / deleteLoadBalancer: logs and returns nil.
deleteLoadBalancer(w, s) ==
    /\ run[w].pc = "Idle"
    /\ store[s].Exists
    /\ run' = [run EXCEPT ![w] = [IdleRun EXCEPT !.pc = "Deleted",
                                                 !.name = s,
                                                 !.service = store[s],
                                                 !.ret = NoError]]
    /\ UNCHANGED <<store, configMap>>

\* GetLoadBalancer: the label it looks for, and what it returns.
OwnerLabel == "kube=vip"

GetLoadBalancer(w, s) ==
    /\ run[w].pc = "Idle"
    /\ store[s].Exists
    /\ run' = [run EXCEPT ![w] =
                 [IdleRun EXCEPT
                    !.pc = "Got",
                    !.name = s,
                    !.service = store[s],
                    !.exists = (store[s].implementation = OwnerLabel),
                    !.lbs = IF store[s].implementation = OwnerLabel
                            THEN store[s].Status ELSE NilStatus,
                    !.ret = NoError]]
    /\ UNCHANGED <<store, configMap>>

\* The call has returned; the worker is free for the next event.
Return(w) ==
    /\ run[w].pc \in {"Bound", "Failed", "Deleted", "Got"}
    /\ run' = [run EXCEPT ![w] = IdleRun]
    /\ UNCHANGED <<store, configMap>>

(***************************************************************************)
(* The other writers of the request store.                                 *)
(***************************************************************************)
\* Another client writes service s (a field this code does not read); every
\* Get made before is stale.
OtherWrite(s) ==
    /\ store[s].Exists
    /\ UNCHANGED store
    /\ run' = Staled("", s)
    /\ UNCHANGED configMap

\* The service is deleted from the store.
DeleteService(s) ==
    /\ store[s].Exists
    /\ store' = [store EXCEPT ![s] = Deleted(@)]
    /\ UNCHANGED <<configMap, run>>

Step(w) ==
    \/ EntryGuard(w)
    \/ ListServices(w)
    \/ GetConfigMap(w)
    \/ CreateConfigMap(w)
    \/ Allocate(w)
    \/ GetService(w)
    \/ UpdateService(w)
    \/ Cancel(w)
    \/ Return(w)

Next ==
    \/ \E w \in Workers, s \in Services : Begin(w, s)
    \/ \E w \in Workers, s \in Services : deleteLoadBalancer(w, s)
    \/ \E w \in Workers, s \in Services : GetLoadBalancer(w, s)
    \/ \E w \in Workers : Step(w)
    \/ \E s \in Services : OtherWrite(s)
    \/ \E s \in Services : DeleteService(s)

Spec == Init /\ [][Next]_vars

\* One worker: the calls of syncLoadBalancer do not overlap.
NextSeq ==
    \/ \E s \in Services : Begin("w1", s)
    \/ \E s \in Services : deleteLoadBalancer("w1", s)
    \/ \E s \in Services : GetLoadBalancer("w1", s)
    \/ Step("w1")
    \/ \E s \in Services : OtherWrite(s)
    \/ \E s \in Services : DeleteService(s)

SpecSeq == InitSeq /\ [][NextSeq]_vars

\* The calls of one worker on the services of one namespace; a collaborator
\* call that was made returns, so the steps of a call in progress are taken
\* (weak fairness), while the caller and the other writers are free.
LiveConfigs ==
    { [Exists |-> FALSE, Data |-> EmptyData],
      [Exists |-> TRUE, Data |-> Data1(RangeGlobal, Range12)],
      [Exists |-> TRUE, Data |-> Data1(RangeKey("default"), RangeBad)] }

InitLive ==
    /\ store = [s \in Services |-> NewService(s, "default")]
    /\ configMap \in LiveConfigs
    /\ run = [w \in Workers |-> IdleRun]

Progress(w) ==
    \/ EntryGuard(w)
    \/ ListServices(w)
    \/ GetConfigMap(w)
    \/ CreateConfigMap(w)
    \/ Allocate(w)
    \/ GetService(w)
    \/ UpdateService(w)

SpecLive == InitLive /\ [][NextSeq]_vars /\ WF_vars(Progress("w1"))

(***************************************************************************)
(* The claims.                                                             *)
(***************************************************************************)
\* The three fields syncLoadBalancer writes.
Bound3(svc) == <<svc.implementation, svc.ipam, svc.LoadBalancerIP>>

\* Worker w takes a step of its call.
Moves(w) == run'[w] # run[w]

\* C1: no two services of one namespace hold the same non-empty assigned
\* address, in any reachable state of the store, however the runs of
\* syncLoadBalancer for the two services interleave.
C1_NoSharedAddress ==
    \A s, t \in Services :
        /\ s # t
        /\ store[s].Exists /\ store[t].Exists
        /\ store[s].Namespace = store[t].Namespace
        /\ store[s].LoadBalancerIP # NoAddr
        => store[s].LoadBalancerIP # store[t].LoadBalancerIP

\* C2: once Spec.LoadBalancerIP of a service is non-empty in the store, no
\* step changes it to a different value while the service exists.
C2_NeverReassigned ==
    [][\A s \in Services :
          store[s].LoadBalancerIP # NoAddr /\ store'[s].Exists
          => store'[s].LoadBalancerIP = store[s].LoadBalancerIP]_vars

\* C3: a call whose service carries a non-empty address returns that
\* service's status and no error in its first step, having made no call to a
\* collaborator and no write, and leaves both stores as they were.
C3_BoundIsNoOp ==
    [][\A w \in Workers :
          /\ run[w].pc = "Unbound"
          /\ run[w].service.LoadBalancerIP # NoAddr
          /\ Moves(w)
          => /\ run'[w].pc = "Bound"
             /\ run'[w].lbs = run[w].service.Status
             /\ run'[w].ret = NoError
             /\ run'[w].calls = {}
             /\ run'[w].writes = 0
             /\ store' = store
             /\ configMap' = configMap]_vars

C3_Witness ==
    \E w \in Workers :
        /\ run[w].pc = "Bound"
        /\ run[w].service.LoadBalancerIP # NoAddr
        /\ run[w].lbs = StatusOf(run[w].name)
        /\ store[run[w].name].LoadBalancerIP = run[w].service.LoadBalancerIP

\* Worker w takes the step that runs discoverAddress.
Allocates(w) == run[w].pc = "Allocating" /\ Moves(w)

\* The usable addresses of the pool under key k of the document data.
PoolHosts(data, k) ==
    IF k[1] = "cidr" THEN Elems(CidrHosts(data[k]))
    ELSE Elems(RangeHosts(data[k]))

\* The lookup order of the pool keys, and the first of them present in data.
LookupOrder(namespace) ==
    <<CidrKey(namespace), CidrGlobal, RangeKey(namespace), RangeGlobal>>

FirstPresent(data, namespace) ==
    LET hits == {i \in 1..4 : LookupOrder(namespace)[i] \in DOMAIN data}
    IN  IF hits = {} THEN NoKey
        ELSE LookupOrder(namespace)[CHOOSE i \in hits :
                                        \A j \in hits : i <= j]

\* C4: the pool is taken from the first key present in the order
\* cidr-<namespace>, cidr-global, range-<namespace>, range-global, whatever
\* subset of the four is present, and an address that is allocated is one of
\* that pool.
C4_LookupOrder ==
    [][\A w \in Workers :
          Allocates(w)
          => /\ run'[w].key = FirstPresent(run[w].cm, run[w].service.Namespace)
             /\ run'[w].pc = "Persisting"
                => run'[w].loadBalancerIP \in PoolHosts(run[w].cm, run'[w].key)
       ]_vars

\* cidr-default and range-global are both defined, and the address comes from
\* the CIDR pool.
C4_Witness ==
    \E w \in Workers :
        /\ run[w].pc = "Persisting"
        /\ run[w].service.Namespace = "default"
        /\ {CidrKey("default"), RangeGlobal} \subseteq DOMAIN configMap.Data
        /\ run[w].key = CidrKey("default")
        /\ run[w].loadBalancerIP \in Elems(CidrHosts(Cidr30))

\* C5: an address that is allocated is the numerically smallest usable
\* address of the pool that is not among the claimed addresses.
C5_LowestFree ==
    [][\A w \in Workers :
          Allocates(w) /\ run'[w].pc = "Persisting"
          => LET vip == run'[w].loadBalancerIP
                 free == PoolHosts(run[w].cm, run'[w].key)
                           \ Elems(run[w].existingServiceIPS)
             IN  /\ vip \in free
                 /\ \A a \in free : IPLeq(vip, a)]_vars

\* An address is allocated past one that is claimed.
C5_Witness ==
    \E w \in Workers, s \in Services :
        /\ run[w].pc = "Persisting"
        /\ store[s].Exists /\ store[s].implementation = KubeVip
        /\ store[s].Namespace = run[w].service.Namespace
        /\ store[s].ipam # NoAddr
        /\ IPLess(store[s].ipam, run[w].loadBalancerIP)
        /\ run[w].loadBalancerIP = IP(10, 0, 1, 0)

Addr1 == IP(192, 168, 1, 1)
Addr2 == IP(192, 168, 1, 2)

\* C6: an address allocated from a CIDR block is neither the network nor the
\* broadcast address of the block; from 192.168.1.0/30 it is 192.168.1.1
\* when nothing is claimed and 192.168.1.2 when 192.168.1.1 is claimed.
C6_CidrHostsOnly ==
    [][\A w \in Workers :
          Allocates(w) /\ run'[w].key[1] = "cidr"
          => LET text == run[w].cm[run'[w].key]
                 claimed == Elems(run[w].existingServiceIPS)
             IN  /\ run'[w].pc = "Persisting"
                    => /\ run'[w].loadBalancerIP
                            # NetworkAddr(text.ip, text.bits)
                       /\ run'[w].loadBalancerIP
                            # BroadcastAddr(text.ip, text.bits)
                 /\ text = Cidr30 /\ Addr1 \notin claimed
                    => /\ run'[w].pc = "Persisting"
                       /\ run'[w].loadBalancerIP = Addr1
                 /\ text = Cidr30 /\ Addr1 \in claimed /\ Addr2 \notin claimed
                    => /\ run'[w].pc = "Persisting"
                       /\ run'[w].loadBalancerIP = Addr2]_vars

\* With cidr-default = 192.168.1.0/30 one service of namespace default is
\* bound to 192.168.1.1 and the next to 192.168.1.2.
C6_Witness ==
    /\ CidrKey("default") \in DOMAIN configMap.Data
    /\ configMap.Data[CidrKey("default")] = Cidr30
    /\ \E s, t \in Services :
         /\ store[s].Namespace = "default" /\ store[t].Namespace = "default"
         /\ store[s].LoadBalancerIP = Addr1
         /\ store[t].LoadBalancerIP = Addr2

\* Every usable address of the pool under key k of data is claimed.
AllClaimed(data, k, existingServiceIPS) ==
    /\ k # NoKey
    /\ PoolHosts(data, k) # {}
    /\ PoolHosts(data, k) \subseteq Elems(existingServiceIPS)

\* C7: when every usable address of the resolved pool is claimed the
\* allocation reports Exhausted; the call then ends in Failed, returns that
\* error and neither reads nor writes the service.
C7_Exhausted ==
    /\ [](\A w \in Workers :
            run[w].err = ErrExhausted
            => /\ run[w].pc = "Failed"
               /\ run[w].ret = ErrExhausted
               /\ run[w].loadBalancerIP = NoAddr
               /\ run[w].writes = 0
               /\ run[w].calls \cap {"Get", "Update"} = {})
    /\ [][\A w \in Workers :
            /\ Allocates(w)
            /\ AllClaimed(run[w].cm, FirstPresent(run[w].cm,
                                                  run[w].service.Namespace),
                          run[w].existingServiceIPS)
            => /\ run'[w].err = ErrExhausted
               /\ store' = store]_vars

\* The range 10.0.0.1-10.0.0.2 with both addresses claimed.
C7_Witness ==
    \E w \in Workers :
        /\ run[w].pc = "Failed"
        /\ run[w].ret = ErrExhausted
        /\ run[w].key = RangeGlobal
        /\ configMap.Data[RangeGlobal] = Range12
        /\ {store[s].ipam : s \in Services}
             = {NoAddr, IP(10, 0, 0, 1), IP(10, 0, 0, 2)}
        /\ Cardinality({s \in Services : store[s].LoadBalancerIP # NoAddr}) = 2

\* C8: a call that ends in Failed has written nothing, and the labels
\* implementation and ipam-address and the assigned address of a service
\* change only together, in the one committed update of a call that ends in
\* Bound.
C8_NoPartialWrite ==
    /\ [](\A w \in Workers : run[w].pc = "Failed" => run[w].writes = 0)
    /\ [][/\ \A w \in Workers :
               run'[w].pc = "Failed" /\ Moves(w) => store' = store
          /\ \A s \in Services :
               Bound3(store'[s]) # Bound3(store[s]) /\ store'[s].Exists
               => \E w \in Workers :
                     /\ run[w].name = s
                     /\ run[w].pc = "Updating"
                     /\ run'[w].pc = "Bound"
                     /\ run'[w].writes = 1
                     /\ run[w].loadBalancerIP # NoAddr
                     /\ Bound3(store'[s]) = <<KubeVip, run[w].loadBalancerIP,
                                              run[w].loadBalancerIP>>]_vars

\* The retry budget is used up and the service is as it was.
C8_Witness ==
    \E w \in Workers :
        /\ run[w].pc = "Failed"
        /\ run[w].retryErr = ErrConflict
        /\ run[w].attempts = RetrySteps
        /\ store[run[w].name].Exists
        /\ store[run[w].name] = run[w].service
        /\ Bound3(store[run[w].name]) = <<"", NoAddr, NoAddr>>

\* C9: a call whose update met a Conflict and then succeeded on the re-read
\* and re-write ends in Bound with one committed write, the service holding
\* the one allocated address in its label and in its address field.
C9_ConflictRetry ==
    [][\A w \in Workers :
          /\ run[w].pc = "Updating"
          /\ run[w].attempts >= 1
          /\ run'[w].pc = "Bound"
          => /\ run'[w].writes = 1
             /\ run'[w].ret = NoError
             /\ run'[w].loadBalancerIP = run[w].loadBalancerIP
             /\ Bound3(store'[run[w].name])
                  = <<KubeVip, run[w].loadBalancerIP, run[w].loadBalancerIP>>
       ]_vars

C9_Witness ==
    \E w \in Workers :
        /\ run[w].pc = "Bound"
        /\ run[w].attempts = 1
        /\ run[w].writes = 1
        /\ run[w].loadBalancerIP # NoAddr
        /\ store[run[w].name].LoadBalancerIP = run[w].loadBalancerIP
        /\ store[run[w].name].ipam = run[w].loadBalancerIP

\* The error of the last collaborator call of a run.
LastCallErr(r) == IF r.retryErr # NoError THEN r.retryErr ELSE r.err

\* C10: a store-connectivity error of a collaborator call ends the call of
\* syncLoadBalancer at once, and that same error is what it returns.
C10_StoreErrorReturned ==
    \A w \in Workers :
        LastCallErr(run[w])[1] = "StoreError"
        => /\ run[w].pc = "Failed"
           /\ run[w].ret = LastCallErr(run[w])

(***************************************************************************)
(* C11.  The deletion path always returns success and changes neither the  *)
(* services nor the configuration document; the address of a deleted       *)
(* service is released only implicitly: a listing holds exactly the        *)
(* ipam-address labels of the services that still exist in the namespace   *)
(* with the ownership label, so the address of a service that is gone is   *)
(* claimed no more.                                                        *)
(***************************************************************************)
Listed(st, namespace) ==
    {st[s].ipam : s \in {t \in Services : /\ st[t].Exists
                                          /\ st[t].Namespace = namespace
                                          /\ st[t].implementation = KubeVip}}

C11_DeletionPath ==
    [][\A w \in Workers :
         /\ (run[w].pc = "Idle" /\ run'[w].pc = "Deleted")
               => /\ store' = store
                  /\ configMap' = configMap
                  /\ run'[w].ret = NoError
                  /\ run'[w].writes = 0
         /\ (run[w].pc = "Deleted" /\ Moves(w))
               => /\ store' = store
                  /\ configMap' = configMap
                  /\ run'[w] = IdleRun
         /\ (run[w].pc = "Unbound" /\ run'[w].pc = "Resolving")
               => Elems(run'[w].existingServiceIPS)
                    = Listed(store, run[w].service.Namespace)]_vars

\* The deletion handler ran on a service that held 192.168.1.1, the service
\* is gone, and a reconciliation of the other service was given that address.
C11_Witness ==
    \E w \in Workers, v \in Workers :
       /\ run[w].pc = "Deleted"
       /\ run[w].service.LoadBalancerIP = Addr1
       /\ ~store[run[w].name].Exists
       /\ run[v].pc = "Bound"
       /\ run[v].name # run[w].name
       /\ run[v].writes = 1
       /\ run[v].loadBalancerIP = Addr1
       /\ store[run[v].name].LoadBalancerIP = Addr1

(***************************************************************************)
(* C12.  First hit wins, with no fallback: when the first key present is a *)
(* CIDR key and its pool has no usable address or none that is free, the   *)
(* call fails with InvalidPool or Exhausted whatever range keys are        *)
(* present; the call fails with NotFound exactly when none of the four     *)
(* keys is present; and in both cases the services are left as they were.  *)
(***************************************************************************)
C12_FirstHitWins ==
    [][\A w \in Workers :
          Allocates(w)
          => LET ns == run[w].service.Namespace
                 k == FirstPresent(run[w].cm, ns)
                 claimed == Elems(run[w].existingServiceIPS)
             IN  /\ (k # NoKey /\ k[1] = "cidr"
                       /\ PoolHosts(run[w].cm, k) \subseteq claimed)
                    => /\ run'[w].pc = "Failed"
                       /\ run'[w].key = k
                       /\ run'[w].ret = IF PoolHosts(run[w].cm, k) = {}
                                        THEN ErrInvalidPool ELSE ErrExhausted
                       /\ run'[w].loadBalancerIP = NoAddr
                 /\ (run'[w].ret = ErrNotFound
                       <=> Elems(LookupOrder(ns)) \cap DOMAIN run[w].cm = {})
                 /\ run'[w].pc = "Failed"
                    => /\ store' = store
                       /\ run'[w].writes = 0]_vars

\* cidr-default is used up and the call failed, although range-default is
\* present with both of its addresses free.
C12_Witness ==
    \E w \in Workers :
        /\ run[w].pc = "Failed"
        /\ run[w].ret = ErrExhausted
        /\ run[w].key = CidrKey("default")
        /\ run[w].service.Namespace = "default"
        /\ RangeKey("default") \in DOMAIN configMap.Data
        /\ Elems(RangeHosts(configMap.Data[RangeKey("default")]))
             \cap {store[s].ipam : s \in Services} = {}
        /\ Elems(RangeHosts(configMap.Data[RangeKey("default")])) # {}

(***************************************************************************)
(* C13.  The write loop is bounded: the function of the retry is called    *)
(* again only after a Conflict, at most RetrySteps times in all, and the   *)
(* first error that is not a Conflict ends the loop; so every call of      *)
(* syncLoadBalancer in progress ends in Bound or Failed, also when every   *)
(* update conflicts.                                                       *)
(***************************************************************************)
InProgress(w) ==
    run[w].pc \in {"Unbound", "Resolving", "Creating", "Allocating",
                   "Persisting", "Updating"}

C13_BoundedLoop ==
    /\ [](\A w \in Workers :
            /\ run[w].attempts <= RetrySteps
            /\ run[w].pc \in {"Persisting", "Updating"}
               => run[w].attempts < RetrySteps
            /\ (run[w].pc = "Failed" /\ run[w].retryErr = ErrConflict)
               => run[w].attempts = RetrySteps)
    /\ [][\A w \in Workers :
            /\ (run[w].pc = "Updating" /\ run'[w].pc = "Persisting")
               => /\ ~run[w].fresh
                  /\ run'[w].attempts = run[w].attempts + 1
                  /\ store' = store
            /\ (run[w].pc = "Updating" /\ run'[w].pc # "Updating")
               => \/ run'[w].pc = "Bound" /\ run[w].fresh
                  \/ run'[w].pc = "Persisting"
                  \/ /\ run'[w].pc = "Failed"
                     /\ run'[w].retryErr = ErrConflict
                         => run'[w].attempts = RetrySteps
            /\ (run[w].pc = "Persisting" /\ run'[w].pc # "Persisting")
               => /\ run'[w].pc \in {"Updating", "Failed"}
                  /\ run'[w].attempts = run[w].attempts]_vars
    /\ \A w \in Workers :
          InProgress(w) ~> run[w].pc \in {"Bound", "Failed"}

\* Every update of the call met a Conflict: the loop stopped after RetrySteps
\* calls and the call failed.
C13_Witness ==
    \E w \in Workers :
        /\ run[w].pc = "Failed"
        /\ run[w].attempts = RetrySteps
        /\ run[w].retryErr = ErrConflict
        /\ run[w].ctx = "live"
        /\ {"Get", "Update"} \subseteq run[w].calls
        /\ run[w].ret = Errorf(run[w].name, run[w].err)

(***************************************************************************)
(* C14.  Once the context of a call is cancelled while its write loop      *)
(* runs, no further Get or Update of the call succeeds: the next step of   *)
(* the call ends it in Failed with the cancellation error, that step and   *)
(* the call as a whole commit no update, and the service, if it still      *)
(* exists, is as it was when the call began.                               *)
(***************************************************************************)
C14_Cancellation ==
    /\ [](\A w \in Workers :
            run[w].ctx = "cancelled"
            => /\ run[w].pc \in {"Persisting", "Updating", "Failed"}
               /\ run[w].writes = 0
               /\ run[w].pc = "Failed"
                  => /\ run[w].retryErr \in {ErrCanceled("Get"),
                                             ErrCanceled("Update")}
                     /\ run[w].ret = Errorf(run[w].name, run[w].err)
                     /\ store[run[w].name].Exists
                        => store[run[w].name] = run[w].service)
    /\ [][\A w \in Workers :
            /\ run[w].ctx = "cancelled"
            /\ run[w].pc \in {"Persisting", "Updating"}
            /\ run'[w].pc # run[w].pc
            => /\ run'[w].pc = "Failed"
               /\ run'[w].ctx = "cancelled"
               /\ store' = store]_vars
    /\ \A w \in Workers :
          (run[w].ctx = "cancelled" /\ run[w].pc \in {"Persisting", "Updating"})
            ~> (run[w].ctx = "cancelled" /\ run[w].pc = "Failed")

\* The context was cancelled after a Conflict, while the second Update was
\* about to be sent.
C14_Witness ==
    \E w \in Workers :
        /\ run[w].pc = "Failed"
        /\ run[w].ctx = "cancelled"
        /\ run[w].attempts = 1
        /\ run[w].retryErr = ErrCanceled("Update")
        /\ store[run[w].name] = run[w].service

(***************************************************************************)
(* C15.  CreateConfigMap is called only after GetConfigMap reported that    *)
(* the document does not exist, never after another error of GetConfigMap;  *)
(* and a call whose CreateConfigMap failed has ended in Failed without a    *)
(* Get or an Update of the service.                                         *)
(***************************************************************************)
C15_CreateOnlyWhenAbsent ==
    \A w \in Workers :
        /\ run[w].pc = "Creating"
           => run[w].err = ErrObjNotFound("GetConfigMap")
        /\ (run[w].err # NoError /\ run[w].err[2] = "CreateConfigMap")
           => /\ run[w].pc = "Failed"
              /\ run[w].writes = 0
              /\ run[w].calls \cap {"Get", "Update"} = {}

(***************************************************************************)
(* C16.  The three fields are written together with one address: in every *)
(* state a service either has none of them or has the label                *)
(* implementation = kube-vip and the label ipam-address equal to its       *)
(* address, which is not empty; and a listing of the namespace holds the   *)
(* address of every service of the namespace that has one.                 *)
(***************************************************************************)
C16_FieldsTogether ==
    /\ [](\A s \in Services :
            \/ Bound3(store[s]) = <<"", NoAddr, NoAddr>>
            \/ /\ store[s].Exists
               /\ store[s].LoadBalancerIP # NoAddr
               /\ Bound3(store[s]) = <<KubeVip, store[s].LoadBalancerIP,
                                       store[s].LoadBalancerIP>>)
    /\ [][\A w \in Workers :
            (run[w].pc = "Unbound" /\ run'[w].pc = "Resolving")
            => \A s \in Services :
                  /\ store[s].Exists
                  /\ store[s].Namespace = run[w].service.Namespace
                  /\ store[s].LoadBalancerIP # NoAddr
                  => store[s].LoadBalancerIP
                       \in Elems(run'[w].existingServiceIPS)]_vars

\* A listing that holds the address of a service bound before.
C16_Witness ==
    \E w \in Workers, s \in Services :
        /\ run[w].pc = "Resolving"
        /\ run[w].name # s
        /\ store[s].LoadBalancerIP # NoAddr
        /\ Bound3(store[s]) = <<KubeVip, store[s].LoadBalancerIP,
                                store[s].LoadBalancerIP>>
        /\ store[s].LoadBalancerIP \in Elems(run[w].existingServiceIPS)

(***************************************************************************)
(* C17.  When the calls do not overlap (one worker, each call returning    *)
(* before the next begins), after any sequence of calls and deletions the  *)
(* services of one namespace that have an address have pairwise distinct   *)
(* addresses.                                                              *)
(***************************************************************************)
C17_SequentialUnique ==
    \A s \in Services, t \in Services :
        /\ s # t
        /\ store[s].Exists /\ store[t].Exists
        /\ store[s].Namespace = store[t].Namespace
        /\ store[s].LoadBalancerIP # NoAddr
        => store[s].LoadBalancerIP # store[t].LoadBalancerIP

\* Two services of one namespace are bound, one of them after the third
\* service, which held the lowest address of the pool, was deleted: it was
\* given that address again, and the two addresses differ.
C17_Witness ==
    \E s \in Services, t \in Services, u \in Services :
        /\ ~store[u].Exists
        /\ store[s].Exists /\ store[t].Exists
        /\ store[s].Namespace = store[t].Namespace
        /\ run["w1"].pc = "Bound" /\ run["w1"].name = t
        /\ run["w1"].writes = 1
        /\ store[t].LoadBalancerIP = Addr1
        /\ store[s].LoadBalancerIP = Addr2

(***************************************************************************)
(* C18.  Two services of different namespaces that both resolve to the    *)
(* same global pool (cidr-global or range-global) never have the same      *)
(* address, the calls not overlapping.                                     *)
(***************************************************************************)
C18_GlobalPoolUnique ==
    \A s \in Services, t \in Services :
        /\ s # t
        /\ store[s].Exists /\ store[t].Exists
        /\ store[s].Namespace # store[t].Namespace
        /\ configMap.Exists
        /\ ResolveKey(configMap.Data, store[s].Namespace)
             \in {CidrGlobal, RangeGlobal}
        /\ ResolveKey(configMap.Data, store[s].Namespace)
             = ResolveKey(configMap.Data, store[t].Namespace)
        /\ store[s].LoadBalancerIP # NoAddr
        => store[s].LoadBalancerIP # store[t].LoadBalancerIP

(***************************************************************************)
(* C19.  GetLoadBalancer returns no error; called on a service that has   *)
(* the label implementation = kube-vip, which syncLoadBalancer writes, it  *)
(* reports that the load balancer exists, with the status of the service;  *)
(* it reports that none exists only for a service without that label.      *)
(***************************************************************************)
C19_GetLoadBalancer ==
    \A w \in Workers :
        run[w].pc = "Got"
        => /\ run[w].ret = NoError
           /\ run[w].writes = 0
           /\ run[w].exists <=> run[w].service.implementation = KubeVip
           /\ run[w].exists => run[w].lbs = run[w].service.Status

====
